---- MODULE Spec2Model ----
(***************************************************************************)
(* A model of whatismyip (src/src/whatismyip/__init__.py): the public      *)
(* resolution operations whatismyip(), whatismyipv4(), whatismyipv6(), the *)
(* STUN client _get_ip_from_stun() with its retry loops and its attribute  *)
(* walk over the received buffer, and the HTTPS resolver                   *)
(* _get_ip_from_https().  The network is the environment: every bind,      *)
(* send, receive and fetch draws its outcome from a small set.             *)
(***************************************************************************)
EXTENDS Integers, Sequences, FiniteSets, TLC

(***************************************************************************)
(* Bounds of the model.                                                    *)
(***************************************************************************)
\* sends of one STUN query are counted up to this number (the counter saturates)
MaxSends == 4
\* number of endpoints of the IPv4-tagged and of the IPv6-tagged pool
NumIP4 == 2
NumIP6 == 1
\* number of STUN servers
NumStun == 2
\* number of web servers of ONLINE_WEB_SERVERS, not less than the 3 that
\* amionline probes
NumOnline == 3

(***************************************************************************)
(* Python values.                                                          *)
(***************************************************************************)
ValueError == -1

Min(a, b) == IF a < b THEN a ELSE b

\* s[a:b] of Python, for 0 <= a, 0 <= b: indices past the end are clamped
Slice(s, a, b) ==
  LET lo == Min(a, Len(s))
      hi == Min(b, Len(s))
  IN  IF hi <= lo THEN << >> ELSE [k \in 1..(hi - lo) |-> s[lo + k]]

(***************************************************************************)
(* Hexadecimal text (binascii.b2a_hex, binascii.a2b_hex, int(s, 16)) and   *)
(* decimal text (str(n)).  A text is a sequence of one-character strings.  *)
(***************************************************************************)
HexDigits == <<"0", "1", "2", "3", "4", "5", "6", "7", "8", "9", "a", "b", "c", "d", "e", "f">>
UpperHexDigits == <<"0", "1", "2", "3", "4", "5", "6", "7", "8", "9", "A", "B", "C", "D", "E", "F">>

\* the value of each hex digit, of either case
HexValue ==
  [c \in {HexDigits[k] : k \in 1..16} \cup {UpperHexDigits[k] : k \in 1..16} |->
     CHOOSE n \in 0..15 : HexDigits[n + 1] = c \/ UpperHexDigits[n + 1] = c]
HexVal(c) == HexValue[c]

\* str.upper() on a text of hex digits
Upper(t) == [k \in 1..Len(t) |-> UpperHexDigits[HexVal(t[k]) + 1]]

\* the two lower-case hex digits of each byte
ByteHex == [byte \in 0..255 |-> <<HexDigits[(byte \div 16) + 1], HexDigits[(byte % 16) + 1]>>]

\* _b2hex: two lower-case hex digits per byte
b2hex(abytes) ==
  [k \in 1..(2 * Len(abytes)) |-> ByteHex[abytes[(k + 1) \div 2]][2 - (k % 2)]]

\* binascii.a2b_hex on a text of an even number of hex digits
a2b_hex(t) ==
  [k \in 1..(Len(t) \div 2) |-> 16 * HexVal(t[2 * k - 1]) + HexVal(t[2 * k])]

\* int(t, 16): the empty text is a ValueError
RECURSIVE IntBase16Acc(_, _)
IntBase16Acc(t, acc) ==
  IF t = << >> THEN acc ELSE IntBase16Acc(Tail(t), 16 * acc + HexVal(Head(t)))
IntBase16(t) == IF t = << >> THEN ValueError ELSE IntBase16Acc(t, 0)

DecDigits == <<"0", "1", "2", "3", "4", "5", "6", "7", "8", "9">>
\* str(n) for n >= 0
RECURSIVE Str(_)
Str(n) == IF n < 10 THEN <<DecDigits[n + 1]>> ELSE Str(n \div 10) \o <<DecDigits[(n % 10) + 1]>>


(***************************************************************************)
(* Constants of the module (lines 60-105).                                 *)
(***************************************************************************)
IP4_WEBSITES == [k \in 1..NumIP4 |-> <<"ip4", k>>]
IP6_WEBSITES == [k \in 1..NumIP6 |-> <<"ip6", k>>]
IP_WEBSITES == IP4_WEBSITES \o IP6_WEBSITES
STUN_SERVERS == [k \in 1..NumStun |-> <<"stun", k>>]
ONLINE_WEB_SERVERS == [k \in 1..NumOnline |-> <<"web", k>>]

MAPPED_ADDRESS == <<"0", "0", "0", "1">>
STUN_ATTR_LEN == 4
BIND_REQUEST_MSG == <<"0", "0", "0", "1">>
BIND_RESPONSE_MSG == <<"0", "1", "0", "1">>

Range(s) == {s[k] : k \in 1..Len(s)}

(***************************************************************************)
(* The environment's datagrams.  A datagram is a sequence of bytes: a      *)
(* 20-byte header (type, declared body length, 16 bytes of transaction id) *)
(* and attributes, possibly cut short.                                     *)
(***************************************************************************)
\* the texts random.choice('0123456789ABCDEF') x 32 can produce, two of them
TransIDs ==
  { [k \in 1..32 |-> IF k = 32 THEN "1" ELSE "A"],
    [k \in 1..32 |-> IF k = 32 THEN "2" ELSE "A"] }

U16(n) == <<n \div 256, n % 256>>
Attr(type, value) == U16(type) \o U16(Len(value)) \o value
\* MAPPED-ADDRESS 203.0.113.5:54320
MappedAttr == Attr(1, <<0, 1, 212, 48, 203, 0, 113, 5>>)
\* SOURCE-ADDRESS 198.51.100.7:3478
SourceAttr == Attr(4, <<0, 1, 13, 150, 198, 51, 100, 7>>)
\* a 4-byte attribute of another type
ShortAttr == Attr(32802, <<97, 98, 99, 100>>)

\* MAPPED-ADDRESS 255.0.10.1:80
MappedAttrB == Attr(1, <<0, 1, 0, 80, 255, 0, 10, 1>>)
\* a 3-byte attribute and an attribute with no value, of other types
OddAttr == Attr(32800, <<97, 98, 99>>)
EmptyAttr == Attr(6, << >>)

AttrLists ==
  { << >>, MappedAttr, SourceAttr, ShortAttr,
    SourceAttr \o MappedAttr, ShortAttr \o MappedAttr,
    SourceAttr \o SourceAttr, SourceAttr \o ShortAttr,
    OddAttr \o MappedAttrB, EmptyAttr \o MappedAttr }

Message(type, tid, body) == a2b_hex(type) \o U16(Len(body)) \o a2b_hex(tid) \o body

\* well-formed Binding Responses, Binding Responses cut short or declaring a
\* body they do not carry, and datagrams of another message type
Datagrams ==
  LET whole == {Message(BIND_RESPONSE_MSG, t, b) : t \in TransIDs, b \in AttrLists}
      cut   == {Slice(Message(BIND_RESPONSE_MSG, t, b), 0, n) :
                  t \in TransIDs, b \in {SourceAttr \o MappedAttr}, n \in {10, 22, 30}}
      lying == {a2b_hex(BIND_RESPONSE_MSG) \o U16(n) \o a2b_hex(t) \o b :
                  t \in TransIDs, n \in {0, 4}, b \in {SourceAttr}}
      other == {Message(<<"0", "1", "1", "1">>, t, MappedAttr) : t \in TransIDs}
  IN  whole \cup cut \cup lying \cup other

(***************************************************************************)
(* IPV4_REGEX and IPV6_REGEX (lines 31-55) under Pattern.match: the        *)
(* pattern is tried at the start of the text and need not reach its end.   *)
(* A set of positions stands for the places a partial match can have got   *)
(* to; position p is the place before t[p + 1].                            *)
(***************************************************************************)
Digit == {"0", "1", "2", "3", "4", "5", "6", "7", "8", "9"}
HexChar == Digit \cup {"a", "b", "c", "d", "e", "f", "A", "B", "C", "D", "E", "F"}
\* [0-9a-zA-Z], as far as the texts of the model use it
AlNumChar == HexChar \cup {"t", "h", "x", "m", "l"}

\* one character of class C
Ch(t, P, C) == {p + 1 : p \in {q \in P : q < Len(t) /\ t[q + 1] \in C}}
\* $ : the end of the text, or the place before a newline that ends it
AtEnd(t, P) == {p \in P : p = Len(t) \/ (p = Len(t) - 1 /\ t[Len(t)] = "\n")}

\* (25[0-5]|2[0-4][0-9]|[01]?[0-9][0-9]?)
Octet4(t, P) ==
  LET a == Ch(t, Ch(t, Ch(t, P, {"2"}), {"5"}), {"0", "1", "2", "3", "4", "5"})
      b == Ch(t, Ch(t, Ch(t, P, {"2"}), {"0", "1", "2", "3", "4"}), Digit)
      c == Ch(t, P \cup Ch(t, P, {"0", "1"}), Digit)
  IN  a \cup b \cup c \cup Ch(t, c, Digit)

\* (25[0-5]|(2[0-4]|1{0,1}[0-9]){0,1}[0-9])
Octet6(t, P) ==
  LET a == Ch(t, Ch(t, Ch(t, P, {"2"}), {"5"}), {"0", "1", "2", "3", "4", "5"})
      b == Ch(t, Ch(t, P, {"2"}), {"0", "1", "2", "3", "4"})
      c == Ch(t, P \cup Ch(t, P, {"1"}), Digit)
  IN  a \cup Ch(t, P \cup b \cup c, Digit)

\* [0-9a-fA-F]{1,4} and [0-9a-fA-F]{0,4}
Hex14(t, P) ==
  LET h1 == Ch(t, P, HexChar)
      h2 == Ch(t, h1, HexChar)
      h3 == Ch(t, h2, HexChar)
  IN  h1 \cup h2 \cup h3 \cup Ch(t, h3, HexChar)
Hex04(t, P) == P \cup Hex14(t, P)

\* the groups the patterns repeat
Group(kind, t, P) ==
  CASE kind = "octet4(.|$)" -> LET o == Octet4(t, P) IN Ch(t, o, {"."}) \cup AtEnd(t, o)
    [] kind = "hex:"        -> Ch(t, Hex14(t, P), {":"})
    [] kind = ":hex"        -> Hex14(t, Ch(t, P, {":"}))
    [] kind = ":hex04"      -> Hex04(t, Ch(t, P, {":"}))
    [] kind = ":0{1,4}"     -> LET c  == Ch(t, P, {":"})
                                   z1 == Ch(t, c, {"0"})
                                   z2 == Ch(t, z1, {"0"})
                                   z3 == Ch(t, z2, {"0"})
                               IN  z1 \cup z2 \cup z3 \cup Ch(t, z3, {"0"})
    [] kind = "octet6."     -> Ch(t, Octet6(t, P), {"."})
    [] kind = "alnum"       -> Ch(t, P, AlNumChar)

RECURSIVE Times(_, _, _, _)
Times(kind, t, P, n) == IF n = 0 THEN P ELSE Times(kind, t, Group(kind, t, P), n - 1)
\* (group){lo,hi}
Rep(kind, t, P, lo, hi) == UNION {Times(kind, t, P, n) : n \in lo..hi}

RECURSIVE Lit(_, _, _)
Lit(t, P, word) == IF word = << >> THEN P ELSE Lit(t, Ch(t, P, {Head(word)}), Tail(word))

\* the places a match of IPV4_REGEX at the start of t can end at
IPV4_REGEX_ends(t) == Rep("octet4(.|$)", t, {0}, 4, 4)
\* IPV4_REGEX.match(t) is not None
IPV4_REGEX_match(t) == IPV4_REGEX_ends(t) # {}

\* ((octet6)\.){3,3}(octet6)
DottedQuad6(t, P) == Octet6(t, Rep("octet6.", t, P, 3, 3))

\* the places a match of IPV6_REGEX at the start of t can end at: one set of
\* positions per alternative
IPV6_REGEX_ends(t) ==
  LET S == {0}
      alts == <<
        Hex14(t, Rep("hex:", t, S, 7, 7)),
        Ch(t, Rep("hex:", t, S, 1, 7), {":"}),
        Hex14(t, Ch(t, Rep("hex:", t, S, 1, 6), {":"})),
        Rep(":hex", t, Rep("hex:", t, S, 1, 5), 1, 2),
        Rep(":hex", t, Rep("hex:", t, S, 1, 4), 1, 3),
        Rep(":hex", t, Rep("hex:", t, S, 1, 3), 1, 4),
        Rep(":hex", t, Rep("hex:", t, S, 1, 2), 1, 5),
        Rep(":hex", t, Ch(t, Hex14(t, S), {":"}), 1, 6),
        LET c == Ch(t, S, {":"}) IN Rep(":hex", t, c, 1, 7) \cup Ch(t, c, {":"}),
        Rep("alnum", t,
            Ch(t, Rep(":hex04", t, Lit(t, S, <<"f", "e", "8", "0", ":">>), 0, 4), {"%"}),
            1, Len(t)),
        LET cc == Lit(t, S, <<":", ":">>)
            f  == Lit(t, cc, <<"f", "f", "f", "f">>)
            m  == Ch(t, Rep(":0{1,4}", t, f, 0, 1), {":"})
        IN  DottedQuad6(t, cc \cup m),
        DottedQuad6(t, Ch(t, Rep("hex:", t, S, 1, 4), {":"})) >>
  IN  UNION {alts[k] : k \in 1..Len(alts)}
\* IPV6_REGEX.match(t) is not None
IPV6_REGEX_match(t) == IPV6_REGEX_ends(t) # {}

\* str.strip(): leading and trailing whitespace removed
WhiteSpace == {" ", "\n", "\t", "\r"}
RECURSIVE LStrip(_)
LStrip(t) == IF t # << >> /\ Head(t) \in WhiteSpace THEN LStrip(Tail(t)) ELSE t
RECURSIVE RStrip(_)
RStrip(t) ==
  IF t # << >> /\ t[Len(t)] \in WhiteSpace THEN RStrip(SubSeq(t, 1, Len(t) - 1)) ELSE t
Strip(t) == RStrip(LStrip(t))

(***************************************************************************)
(* Values a call returns: None, a text, or an exception that the call      *)
(* lets out.  Pending stands for a name that is not bound yet.             *)
(***************************************************************************)
Pending == [kind |-> "pending", text |-> << >>, exc |-> ""]
NoneV == [kind |-> "None", text |-> << >>, exc |-> ""]
StrV(t) == [kind |-> "str", text |-> t, exc |-> ""]
Raised(e) == [kind |-> "raised", text |-> << >>, exc |-> e]
BoolV(b) == [kind |-> IF b THEN "True" ELSE "False", text |-> << >>, exc |-> ""]

\* the bodies the HTTPS endpoints of the model serve, before decoding is
\* stripped: an IPv4 address, an IPv6 address, a page of HTML, an IPv4
\* address with more text after it
Bodies ==
  { <<"9", "9", ".", "9", "9", ".", "9", "9", ".", "9", "9", "\n">>,
    <<" ", ":", ":", "1">>,
    <<"<", "h", "t", "m", "l", ">">>,
    <<"9", "9", ".", "9", "9", ".", "9", "9", ".", "9", "9", ".", "x">> }
\* what urlopen(), read() and decode() of one request come to: an exception
\* (of the connection, of the status, of the decoding) or a decoded body
Responses == {[kind |-> "error", text |-> << >>]} \cup {[kind |-> "body", text |-> b] : b \in Bodies}

\* Shuffles drawing every place of the list anew, so that an element can
\* come twice
ShufflesWithRepeats(s) == [1..Len(s) -> Range(s)]

\* the orders random.shuffle can leave a list in
Shuffles(s) ==
  {q \in [1..Len(s) -> Range(s)] : \A a, b \in 1..Len(s) : a # b => q[a] # q[b]}

VARIABLES
  op,                  \* the public operation in progress
  pc,                  \* where it stands
  result,              \* what it returned or raised
  stunRets,            \* what the calls of _get_ip_from_stun of this operation returned
  stunServer, sockObj, transID, attempts_remaining,
  buf, base, message_remaining, ip,      \* locals of _get_ip_from_stun
  sends,               \* sendto calls of this _get_ip_from_stun that went out
  stunEvents,          \* what the network did during this _get_ip_from_stun
  ip_version, ipWebsites, idx,           \* locals of _get_ip_from_https
  httpsLog,            \* the requests of this operation and what came back
  answered,            \* a datagram reached a socket of this operation
  sources,             \* the keyword argument sources of the call, << >> when there is none
  online_web_servers,  \* amionline's web_servers, the sequence it probes
  passed,              \* the sequence the caller passed to amionline, as it was then
  callerSeq,           \* the same sequence object of the caller, as it is now
  tried,               \* the probes of amionline that failed
  peerSock, peerTransID, peerGot         \* a _get_ip_from_stun of another thread

stunVars == <<stunServer, sockObj, transID, attempts_remaining, buf, base,
              message_remaining, ip, sends, stunEvents>>
httpsVars == <<ip_version, ipWebsites, idx, httpsLog>>
onlineVars == <<online_web_servers, tried, passed, callerSeq>>
peerVars == <<peerSock, peerTransID, peerGot>>
vars == <<op, pc, result, stunRets, stunVars, httpsVars, answered, sources, onlineVars,
          peerVars>>

Operations == {"whatismyip", "whatismyipv4", "whatismyipv6"}

\* a sequence of host names with its Python type; NoServers is the None that
\* amionline takes by default
Servers(type, items) == [type |-> type, items |-> items]
NoServers == Servers("none", << >>)

Init ==
  /\ op = "none"
  /\ pc = "idle"
  /\ result = Pending
  /\ stunRets = << >>
  /\ stunServer = << >>
  /\ sockObj = "none"
  /\ transID = << >>
  /\ attempts_remaining = 0
  /\ buf = << >>
  /\ base = 0
  /\ message_remaining = 0
  /\ ip = Pending
  /\ sends = 0
  /\ stunEvents = {}
  /\ ip_version = "None"
  /\ ipWebsites = << >>
  /\ idx = 0
  /\ httpsLog = << >>
  /\ answered = FALSE
  /\ sources = << >>
  /\ online_web_servers = NoServers
  /\ passed = NoServers
  /\ callerSeq = NoServers
  /\ tried = 0
  /\ peerSock = "none"
  /\ peerTransID = << >>
  /\ peerGot = << >>

(***************************************************************************)
(* whatismyip(), whatismyipv4(), whatismyipv6() (lines 111-146).           *)
(***************************************************************************)
\* the ip_version each operation hands to _get_ip_from_https; "None" is None
IpVersionOf(o) ==
  CASE o = "whatismyip"   -> "None"
    [] o = "whatismyipv4" -> "4"
    [] o = "whatismyipv6" -> "6"

\* EntryOf with whatismyipv6 going through the STUN loop like the others
EntryOfStunFirst(o) == "stun"

\* where an operation starts: the STUN loop, or the HTTPS resolver at once
EntryOf(o) == IF o = "whatismyipv6" THEN "https_start" ELSE "stun"

\* AfterStun with the loop falling through to HTTPS whatever STUN returned
AfterStunIgnoresResult(v, n) == IF n < 3 THEN "stun" ELSE "https_start"

\* the step of the loops of lines 120-125 and 135-140 after the n-th call of
\* _get_ip_from_stun returned v
AfterStun(v, n) ==
  IF v.kind # "None" THEN "done"
  ELSE IF n < 3 THEN "stun" ELSE "https_start"

\* the locals of _get_ip_from_stun keep the values the call ended with until
\* the operation goes on to something else
StunLocalsDropped ==
  /\ stunServer' = << >> /\ sockObj' = "none" /\ transID' = << >>
  /\ attempts_remaining' = 0 /\ buf' = << >> /\ base' = 0
  /\ message_remaining' = 0 /\ ip' = Pending /\ sends' = 0 /\ stunEvents' = {}

\* a public operation is called
Call(o) ==
  /\ pc = "idle"
  /\ op' = o
  /\ pc' = EntryOf(o)
  /\ result' = Pending
  /\ stunRets' = << >>
  /\ StunLocalsDropped
  /\ ip_version' = IpVersionOf(o)
  /\ ipWebsites' = << >> /\ idx' = 0 /\ httpsLog' = << >>
  /\ answered' = FALSE
  /\ sources' = << >>
  /\ online_web_servers' = NoServers /\ tried' = 0
  /\ passed' = NoServers /\ callerSeq' = NoServers
  /\ UNCHANGED peerVars

\* the tuples of endpoints a caller passes as sources
SourceTuples == {<<IP4_WEBSITES[1]>>, <<IP6_WEBSITES[1]>>}

\* lines 111, 128, 143: a public operation is called with the keyword
\* argument sources; the functions are defined with no parameter, so the
\* call raises TypeError before the body runs
CallWithSources(o, src) ==
  /\ pc = "idle"
  /\ op' = o
  /\ sources' = src
  /\ result' = Raised("TypeError")
  /\ pc' = "done"
  /\ stunRets' = << >>
  /\ StunLocalsDropped
  /\ ip_version' = "None"
  /\ ipWebsites' = << >> /\ idx' = 0 /\ httpsLog' = << >>
  /\ answered' = FALSE
  /\ online_web_servers' = NoServers /\ tried' = 0
  /\ passed' = NoServers /\ callerSeq' = NoServers
  /\ UNCHANGED peerVars

\* _get_ip_from_stun returns v to the loop of the operation
StunReturns(v) ==
  /\ stunRets' = Append(stunRets, v)
  /\ pc' = AfterStun(v, Len(stunRets) + 1)
  /\ result' = IF v.kind # "None" THEN v ELSE result

\* an exception leaves _get_ip_from_stun and the operation that called it
StunRaises(e) ==
  /\ stunRets' = Append(stunRets, Raised(e))
  /\ pc' = "done"
  /\ result' = Raised(e)

(***************************************************************************)
(* _get_ip_from_stun (lines 248-321).                                      *)
(***************************************************************************)
\* Exhausted giving up one attempt early
ExhaustedOneEarly(n) == n <= 1

\* line 292: the budget is spent
Exhausted(n) == n = 0

\* the retry budget the loop of line 277 sets at line 278
AttemptBudget == 3

\* line 276: the Binding Request, a header with body length 0
BindRequest(tid) == a2b_hex(BIND_REQUEST_MSG \o <<"0", "0", "0", "0">> \o tid)

Bump(n) == IF n < MaxSends THEN n + 1 ELSE n

\* IsMatchingResponse without the comparison of the transaction ids
IsMatchingResponseAnyTid(b, tid) == b2hex(Slice(b, 0, 2)) = BIND_RESPONSE_MSG

\* lines 295-296: the transaction id and the message type of the buffer
\* are those of a Binding Response to this request
IsMatchingResponse(b, tid) ==
  LET transIDMatch == Upper(tid) = Upper(b2hex(Slice(b, 4, 20)))
  IN  transIDMatch /\ b2hex(Slice(b, 0, 2)) = BIND_RESPONSE_MSG

\* AttributeAt reading the address right after the attribute header, with
\* no family and port before it
AttributeAtNoFamilyPort(b, b0) ==
  LET stunAttribute == b2hex(Slice(b, b0, b0 + 2))
      stunAttributeLength == IntBase16(b2hex(Slice(b, b0 + 2, b0 + 4)))
      octets == [k \in 1..4 |-> IntBase16(b2hex(Slice(b, b0 + 3 + k, b0 + 4 + k)))]
      fault == stunAttributeLength = ValueError \/ \E k \in 1..4 : octets[k] = ValueError
  IN  [type   |-> stunAttribute,
       length |-> stunAttributeLength,
       fault  |-> fault,
       ip     |-> IF fault THEN << >>
                  ELSE Str(octets[1]) \o <<".">> \o Str(octets[2]) \o <<".">>
                         \o Str(octets[3]) \o <<".">> \o Str(octets[4])]

\* lines 300-308: the type, the length and the address read at offset b0;
\* a read of no bytes makes int() raise ValueError
AttributeAt(b, b0) ==
  LET stunAttribute == b2hex(Slice(b, b0, b0 + 2))
      stunAttributeLength == IntBase16(b2hex(Slice(b, b0 + 2, b0 + 4)))
      octets == [k \in 1..4 |-> IntBase16(b2hex(Slice(b, b0 + 7 + k, b0 + 8 + k)))]
      fault == stunAttributeLength = ValueError \/ \E k \in 1..4 : octets[k] = ValueError
  IN  [type   |-> stunAttribute,
       length |-> stunAttributeLength,
       fault  |-> fault,
       ip     |-> IF fault THEN << >>
                  ELSE Str(octets[1]) \o <<".">> \o Str(octets[2]) \o <<".">>
                         \o Str(octets[3]) \o <<".">> \o Str(octets[4])]

\* lines 252-278: a server is chosen, the socket is made and bound to the
\* fixed port, a transaction id is drawn and the request is encoded
StunStart ==
  /\ pc = "stun"
  /\ \E server \in Range(STUN_SERVERS), tid \in TransIDs, bound \in BOOLEAN :
       /\ stunServer' = server
       /\ buf' = << >> /\ base' = 0 /\ message_remaining' = 0 /\ ip' = Pending
       /\ sends' = 0
       /\ IF bound
            THEN /\ sockObj' = "open"
                 /\ transID' = tid
                 /\ attempts_remaining' = AttemptBudget
                 /\ stunEvents' = {}
                 /\ pc' = "send"
                 /\ UNCHANGED <<result, stunRets>>
            ELSE \* bind() raises OSError: the port is taken
                 /\ sockObj' = "unbound"
                 /\ transID' = << >>
                 /\ attempts_remaining' = 0
                 /\ stunEvents' = {"bind_error"}
                 /\ StunRaises("OSError")
  /\ UNCHANGED <<op, sources, onlineVars, peerVars, httpsVars, answered>>

\* lines 285, 293 and 312 return with no close(): no name is left for the
\* socket object, and an implementation that counts references finalizes it
\* as the frame goes, while another leaves it open and bound until a later
\* collection
ReturnsUnclosed == sockObj' \in {"open", "finalized"}

\* StunSend with an address-resolution error handled as a failed receive is:
\* it takes one attempt and the request is sent again while attempts remain
StunSendRetriesOnGaierror ==
  /\ pc = "send"
  /\ \E outcome \in {"sent", "gaierror", "OSError"} :
       /\ sends' = IF outcome = "sent" THEN Bump(sends) ELSE sends
       /\ stunEvents' = IF outcome = "sent" THEN stunEvents ELSE stunEvents \cup {outcome}
       /\ attempts_remaining' =
            IF outcome = "gaierror" THEN attempts_remaining - 1 ELSE attempts_remaining
       /\ CASE outcome = "sent"     -> pc' = "recv" /\ UNCHANGED <<result, stunRets>>
            [] outcome = "gaierror" ->
                 IF Exhausted(attempts_remaining')
                   THEN StunReturns(NoneV)
                   ELSE pc' = "send" /\ UNCHANGED <<result, stunRets>>
            [] outcome = "OSError"  -> StunRaises("OSError")
  /\ UNCHANGED <<op, sources, onlineVars, peerVars, stunServer, sockObj, transID, buf,
                 base, message_remaining, ip, httpsVars, answered>>

\* lines 281-285: sendto
StunSend ==
  /\ pc = "send"
  /\ \E outcome \in {"sent", "gaierror", "OSError"} :
       /\ sends' = IF outcome = "sent" THEN Bump(sends) ELSE sends
       /\ stunEvents' = IF outcome = "sent" THEN stunEvents ELSE stunEvents \cup {outcome}
       /\ CASE outcome = "sent"     -> pc' = "recv" /\ UNCHANGED <<result, stunRets, sockObj>>
            [] outcome = "gaierror" -> StunReturns(NoneV) /\ ReturnsUnclosed
            [] outcome = "OSError"  -> StunRaises("OSError") /\ UNCHANGED sockObj
  /\ UNCHANGED <<op, sources, onlineVars, peerVars>>
  /\ UNCHANGED <<stunServer, transID, attempts_remaining, buf, base,
                 message_remaining, ip, httpsVars, answered>>

\* lines 287-293, the receive times out or fails
StunRecvFails ==
  /\ pc = "recv"
  /\ attempts_remaining' = attempts_remaining - 1
  /\ stunEvents' = stunEvents \cup {"timeout"}
  /\ IF Exhausted(attempts_remaining')
       THEN StunReturns(NoneV) /\ ReturnsUnclosed
       ELSE pc' = "send" /\ UNCHANGED <<result, stunRets, sockObj>>
  /\ UNCHANGED <<op, sources, onlineVars, peerVars>>
  /\ UNCHANGED <<stunServer, transID, buf, base, message_remaining, ip,
                 sends, httpsVars, answered>>

\* lines 287-289, a datagram arrives
StunRecv ==
  /\ pc = "recv"
  /\ \E d \in Datagrams : buf' = d
  /\ stunEvents' = stunEvents \cup {"datagram"}
  /\ answered' = TRUE
  /\ pc' = "check"
  /\ UNCHANGED <<op, sources, onlineVars, peerVars>>
  /\ UNCHANGED <<result, stunRets, stunServer, sockObj, transID, attempts_remaining,
                 base, message_remaining, ip, sends, httpsVars>>

\* lines 295-298 and 277-278: a matching response is walked; anything else
\* sends the loop of line 277 round again, with a new budget
StunCheck ==
  /\ pc = "check"
  /\ IF IsMatchingResponse(buf, transID)
       THEN /\ message_remaining' = IntBase16(b2hex(Slice(buf, 2, 4)))
            /\ base' = 20
            /\ pc' = "walk"
            /\ UNCHANGED attempts_remaining
       ELSE /\ attempts_remaining' = AttemptBudget
            /\ pc' = "send"
            /\ UNCHANGED <<message_remaining, base>>
  /\ UNCHANGED <<op, sources, onlineVars, peerVars>>
  /\ UNCHANGED <<result, stunRets, stunServer, sockObj, transID, buf, ip, sends,
                 stunEvents, httpsVars, answered>>

\* lines 299-317: one attribute of the response
StunWalk ==
  /\ pc = "walk"
  /\ message_remaining # 0
  /\ LET a == AttributeAt(buf, base)
     IN  IF a.fault
           THEN /\ StunRaises("ValueError")
                /\ UNCHANGED <<ip, base, message_remaining, sockObj>>
           ELSE /\ ip' = StrV(a.ip)
                /\ IF a.type = MAPPED_ADDRESS
                     THEN /\ StunReturns(StrV(a.ip))
                          /\ ReturnsUnclosed
                          /\ UNCHANGED <<base, message_remaining>>
                     ELSE /\ base' = base + STUN_ATTR_LEN + a.length
                          /\ message_remaining' = message_remaining - (STUN_ATTR_LEN + a.length)
                          /\ UNCHANGED <<pc, result, stunRets, sockObj>>
  /\ UNCHANGED <<op, sources, onlineVars, peerVars>>
  /\ UNCHANGED <<stunServer, transID, attempts_remaining, buf, sends,
                 stunEvents, httpsVars, answered>>

\* lines 299 and 318-321: the walk is over, the socket is closed and the
\* name ip is returned; it is bound only if the loop ran
StunWalkEnds ==
  /\ pc = "walk"
  /\ message_remaining = 0
  /\ sockObj' = "closed"
  /\ IF ip = Pending THEN StunRaises("UnboundLocalError") ELSE StunReturns(ip)
  /\ UNCHANGED <<op, sources, onlineVars, peerVars>>
  /\ UNCHANGED <<stunServer, transID, attempts_remaining, buf, base,
                 message_remaining, ip, sends, stunEvents, httpsVars, answered>>

(***************************************************************************)
(* _get_ip_from_https (lines 192-239).                                     *)
(***************************************************************************)
\* HttpsPool with the IPv4-tagged pool as the default
HttpsPoolIP4Only(web_servers) == IF web_servers = << >> THEN IP4_WEBSITES ELSE web_servers

\* lines 203-208: the pool that is walked
HttpsPool(web_servers) == IF web_servers = << >> THEN IP_WEBSITES ELSE web_servers

\* the texts strip() leaves of the bodies, and those of them each pattern
\* matches (the matching is done once for each text)
StrippedBodies == {Strip(b) : b \in Bodies}
\* the texts the patterns are tried on: the stripped bodies and the empty text
UserIps == StrippedBodies \cup {<< >>}
IPv4Texts == {t \in UserIps : IPV4_REGEX_match(t)}
IPv6Texts == {t \in UserIps : IPV6_REGEX_match(t)}

\* lines 223-228: the stripped body is an address of the wanted version
Accepts(version, userIp) ==
  \/ version = "4" /\ userIp \in IPv4Texts
  \/ version = "6" /\ userIp \in IPv6Texts
  \/ version = "None" /\ (userIp \in IPv4Texts \/ userIp \in IPv6Texts)

\* lines 203-209: the pool is copied and the copy shuffled
HttpsStart ==
  /\ pc = "https_start"
  /\ ipWebsites' \in Shuffles(HttpsPool(<< >>))
  /\ idx' = 0
  /\ pc' = "https"
  /\ StunLocalsDropped
  /\ UNCHANGED <<op, sources, onlineVars, peerVars>>
  /\ UNCHANGED <<result, stunRets, ip_version, httpsLog, answered>>

\* lines 211-213: the next website of the shuffled list is requested;
\* line 239 when there is none left
HttpsRequest ==
  /\ pc = "https"
  /\ IF idx < Len(ipWebsites)
       THEN /\ idx' = idx + 1
            /\ pc' = "urlopen"
            /\ UNCHANGED result
       ELSE /\ result' = NoneV
            /\ pc' = "done"
            /\ UNCHANGED idx
  /\ UNCHANGED <<op, sources, onlineVars, peerVars>>
  /\ UNCHANGED <<stunRets, stunVars, ip_version, ipWebsites, httpsLog, answered>>

\* lines 213-235: the response arrives, is decoded, stripped and checked
HttpsResponse ==
  /\ pc = "urlopen"
  /\ \E r \in Responses :
       LET userIp == Strip(r.text)
       IN  /\ httpsLog' = Append(httpsLog, [site |-> ipWebsites[idx], response |-> r])
           /\ IF r.kind = "body" /\ Accepts(ip_version, userIp)
                THEN result' = StrV(userIp) /\ pc' = "done"
                ELSE pc' = "https" /\ UNCHANGED result
  /\ UNCHANGED <<op, sources, onlineVars, peerVars>>
  /\ UNCHANGED <<stunRets, stunVars, ip_version, ipWebsites, idx, answered>>

\* the caller has the value returned or the exception raised, and the frame
\* of the operation is gone; another call can follow
Returned ==
  /\ pc = "done"
  /\ pc' = "idle"
  /\ op' = "none"
  /\ result' = Pending
  /\ sources' = << >>
  /\ stunRets' = << >>
  /\ StunLocalsDropped
  /\ ip_version' = "None"
  /\ ipWebsites' = << >> /\ idx' = 0 /\ httpsLog' = << >>
  /\ answered' = FALSE
  /\ online_web_servers' = NoServers /\ tried' = 0
  /\ passed' = NoServers /\ callerSeq' = NoServers
  /\ UNCHANGED peerVars

\* what a caller passes to amionline as web_servers: nothing, or a list or a
\* tuple of 1 to NumOnline host names
OnlineArgs ==
  {NoServers} \cup {Servers(type, SubSeq(ONLINE_WEB_SERVERS, 1, n)) :
                      type \in {"list", "tuple"}, n \in 1..NumOnline}

\* random.shuffle(x) assigns to x[i] for every i from len(x) - 1 down to 1:
\* on a tuple of two or more elements the first assignment raises TypeError
ShuffleRaises(ws) == ws.type = "tuple" /\ Len(ws.items) >= 2

\* line 177: range(3)
OnlineTries == 3

\* lines 158-174: amionline is called; the default is a list made of
\* ONLINE_WEB_SERVERS; the sequence is shuffled in place
AmIOnline(arg) ==
  /\ pc = "idle"
  /\ op' = "amionline"
  /\ sources' = << >>
  /\ stunRets' = << >>
  /\ StunLocalsDropped
  /\ ip_version' = "None"
  /\ ipWebsites' = << >> /\ idx' = 0 /\ httpsLog' = << >>
  /\ answered' = FALSE
  /\ tried' = 0
  /\ passed' = arg
  /\ LET ws == IF arg = NoServers THEN Servers("list", ONLINE_WEB_SERVERS) ELSE arg
     IN  IF ShuffleRaises(ws)
           THEN /\ online_web_servers' = ws
                /\ result' = Raised("TypeError")
                /\ pc' = "done"
           ELSE /\ \E q \in Shuffles(ws.items) : online_web_servers' = Servers(ws.type, q)
                /\ result' = Pending
                /\ pc' = "online"
  \* web_servers names the caller's own object when one was passed (line 174
  \* shuffles it where it is), a new list otherwise (line 171)
  /\ callerSeq' = IF arg = NoServers THEN NoServers ELSE online_web_servers'
  /\ UNCHANGED peerVars

\* lines 177-188: one turn of the loop: web_servers[i] is looked up, which
\* raises IndexError past the end of the sequence, and getaddrinfo answers
\* or raises socket.gaierror; after the third failure False is returned
AmIOnlineProbe ==
  /\ pc = "online"
  /\ IF tried + 1 > Len(online_web_servers.items)
       THEN /\ result' = Raised("IndexError")
            /\ pc' = "done"
            /\ UNCHANGED tried
       ELSE \E resolved \in BOOLEAN :
              IF resolved
                THEN /\ result' = BoolV(TRUE)
                     /\ pc' = "done"
                     /\ UNCHANGED tried
                ELSE /\ tried' = tried + 1
                     /\ IF tried' = OnlineTries
                          THEN result' = BoolV(FALSE) /\ pc' = "done"
                          ELSE UNCHANGED <<result, pc>>
  /\ UNCHANGED <<passed, callerSeq>>
  /\ UNCHANGED <<op, sources, online_web_servers, peerVars, stunRets, stunVars, httpsVars,
                 answered>>

Next ==
  \/ \E o \in Operations : Call(o)
  \/ \E o \in Operations, src \in SourceTuples : CallWithSources(o, src)
  \/ \E arg \in OnlineArgs : AmIOnline(arg)
  \/ AmIOnlineProbe
  \/ Returned
  \/ StunStart
  \/ StunSend
  \/ StunRecvFails
  \/ StunRecv
  \/ StunCheck
  \/ StunWalk
  \/ StunWalkEnds
  \/ HttpsStart
  \/ HttpsRequest
  \/ HttpsResponse

Spec == Init /\ [][Next]_vars

TypeOK ==
  /\ op \in Operations \cup {"none", "amionline"}
  /\ pc \in {"idle", "stun", "send", "recv", "check", "walk", "https_start", "https",
             "urlopen", "online", "done"}
  /\ tried \in 0..OnlineTries
  /\ sends \in 0..MaxSends
  /\ attempts_remaining \in 0..AttemptBudget
  /\ idx \in 0..Len(IP_WEBSITES)

(***************************************************************************)
(* An operation is one sequential thread: the steps enabled are those of   *)
(* the one place it stands at, so weak fairness of Next says that the step *)
(* at that place is taken.  The receive of line 288 ends within the 2      *)
(* seconds of line 269, with a datagram or with a timeout.  urlopen (line  *)
(* 213) is given no timeout, and nothing in the code makes its response    *)
(* arrive; FairSpec grants that it does, so what is refuted under FairSpec *)
(* is refuted all the more without that.                                   *)
(***************************************************************************)
FairSpec == Spec /\ WF_vars(Next)

(***************************************************************************)
(* A second thread of the process that runs _get_ip_from_stun while the    *)
(* operation above is in progress.  Nothing in the module keeps two calls  *)
(* apart: there is no lock, and each call binds its own socket to          *)
(* SOURCE_IP, SOURCE_PORT (lines 252-253, 271) with SO_REUSEADDR set (line *)
(* 270).  Of the second thread only its socket, its transaction id and the *)
(* transaction id of the datagram it received last are kept.  A datagram   *)
(* sent to the port is handed to one of the sockets bound to it.           *)
(***************************************************************************)
\* lines 268-276 in the second thread: the socket is made and bound, which
\* SO_REUSEADDR lets succeed while the port is bound already, or bind()
\* raises OSError; a transaction id is drawn
PeerStart ==
  /\ peerSock = "none"
  /\ \E tid \in TransIDs, bound \in BOOLEAN :
       IF bound
         THEN peerSock' = "open" /\ peerTransID' = tid /\ peerGot' = << >>
         ELSE peerSock' = "unbound" /\ peerTransID' = << >> /\ peerGot' = << >>
  /\ UNCHANGED <<op, pc, result, stunRets, stunVars, httpsVars, answered, sources,
                 onlineVars>>

\* line 295: the transaction ids the datagrams carry
DatagramTransIDs == {Upper(b2hex(Slice(d, 4, 20))) : d \in Datagrams}

\* lines 288, 295 in the second thread: recvfrom hands it a datagram that
\* came to the port
PeerRecv ==
  /\ peerSock = "open"
  /\ \E t \in DatagramTransIDs : peerGot' = t
  /\ UNCHANGED <<op, pc, result, stunRets, stunVars, httpsVars, answered, sources,
                 onlineVars, peerSock, peerTransID>>

\* the call of the second thread ends, by a return or by an exception
PeerEnds ==
  /\ peerSock \in {"open", "unbound"}
  /\ peerSock' = "none" /\ peerTransID' = << >> /\ peerGot' = << >>
  /\ UNCHANGED <<op, pc, result, stunRets, stunVars, httpsVars, answered, sources,
                 onlineVars>>

ConcNext ==
  \/ Next
  \/ PeerStart
  \/ PeerRecv
  \/ PeerEnds

ConcSpec == Init /\ [][ConcNext]_vars

(***************************************************************************)
(* Properties.                                                             *)
(***************************************************************************)
Last(s) == s[Len(s)]

\* the websites requested so far by _get_ip_from_https
Queried == {ipWebsites[k] : k \in 1..idx}

\* a call of _get_ip_from_stun has ended and its locals are still in view
StunEnded == pc \in {"stun", "https_start", "done"} /\ stunRets # << >> /\ stunServer # << >>

\* the HTTPS resolver of the operation in progress has begun
HttpsBegun == pc \in {"https_start", "https", "urlopen"} \/ ipWebsites # << >>

\* the stripped body of the first response of the log that is an address of
\* the wanted family, None when there is none
RECURSIVE FirstValid(_, _)
FirstValid(log, version) ==
  IF log = << >> THEN NoneV
  ELSE LET r == Head(log).response
           t == Strip(r.text)
           ok == /\ r.kind = "body"
                 /\ \/ version \in {"4", "None"} /\ t \in IPv4Texts
                    \/ version \in {"6", "None"} /\ t \in IPv6Texts
       IN  IF ok THEN StrV(t) ELSE FirstValid(Tail(log), version)

\* C1: whatismyip() makes at most 3 STUN queries one after the other and
\* returns the first result that is not None; the HTTPS resolver begins only
\* after 3 STUN queries returned None, no request is made after a STUN query
\* gave a result, and the operation then returns what the resolver finds: the
\* first valid body over a shuffle of the whole pool, of either family, or
\* None once every website of the pool has been tried.
C1_StunThenHttpsFallback ==
  op = "whatismyip" =>
    /\ Len(stunRets) <= 3
    /\ \A k \in 1..Len(stunRets) :
         stunRets[k].kind = "str" =>
           k = Len(stunRets) /\ pc = "done" /\ result = stunRets[k] /\ ~HttpsBegun
    /\ HttpsBegun =>
         /\ Len(stunRets) = 3
         /\ \A k \in 1..3 : stunRets[k] = NoneV
         /\ ipWebsites # << >> =>
              Len(ipWebsites) = Len(IP_WEBSITES) /\ Range(ipWebsites) = Range(IP_WEBSITES)
         /\ ip_version = "None"
         /\ pc = "done" =>
              /\ result = FirstValid(httpsLog, "None")
              /\ result = NoneV => Queried = Range(IP_WEBSITES)

C1_Witness ==
  /\ op = "whatismyip" /\ pc = "done"
  /\ Len(stunRets) = 3 /\ Len(httpsLog) = 2 /\ result.kind = "str"

\* C2: with every STUN server and every website out of reach (no datagram
\* and no body ever comes back; every send, receive and fetch fails or times
\* out) whatismyip() returns None and raises nothing.
C2_UnreachableReturnsNone ==
  (/\ op = "whatismyip" /\ sources = << >> /\ pc = "done"
   /\ ~answered /\ "bind_error" \notin stunEvents
   /\ \A k \in 1..Len(httpsLog) : httpsLog[k].response.kind = "error")
  => result = NoneV

\* C3: whatismyipv6() takes no STUN step (no socket, no request sent, no
\* call of _get_ip_from_stun) and returns what the HTTPS resolver finds with
\* the family held to IPv6.
C3_IPv6SkipsStun ==
  (op = "whatismyipv6" /\ sources = << >>) =>
    /\ pc \notin {"stun", "send", "recv", "check", "walk"}
    /\ stunRets = << >> /\ sockObj = "none" /\ sends = 0 /\ transID = << >>
    /\ ip_version = "6"
    /\ pc = "done" => result = FirstValid(httpsLog, "6")

C3_Witness ==
  op = "whatismyipv6" /\ pc = "done" /\ result.kind = "str" /\ Len(httpsLog) = 2

\* C4 as claimed: a resolution held to one family requests only websites of
\* the pool tagged with that family.
C4_TaggedPoolOnly ==
  /\ op = "whatismyipv4" => Queried \subseteq Range(IP4_WEBSITES)
  /\ op = "whatismyipv6" => Queried \subseteq Range(IP6_WEBSITES)

\* C4 amended: a resolution held to one family walks the combined pool
\* IP_WEBSITES: every website it requests is in IP_WEBSITES, whichever the
\* tag, and when its HTTPS resolver ends with None every website of
\* IP4_WEBSITES and of IP6_WEBSITES has been requested.
C4_CombinedPool ==
  op \in {"whatismyipv4", "whatismyipv6"} =>
    /\ Queried \subseteq Range(IP_WEBSITES)
    /\ (pc = "done" /\ ipWebsites # << >> /\ result = NoneV) =>
         Range(IP4_WEBSITES) \cup Range(IP6_WEBSITES) \subseteq Queried

C4_Witness ==
  /\ op = "whatismyipv4" /\ pc = "done" /\ result = NoneV
  /\ \E k \in 1..Len(httpsLog) : httpsLog[k].site \in Range(IP6_WEBSITES)

\* C5: one call of _get_ip_from_stun sends at most 3 datagrams, whatever
\* the network does during the call.
C5_AtMostThreeSends == sends <= 3

\* C6: against a server that never answers (every receive times out)
\* _get_ip_from_stun sends the request exactly 3 times and then returns None.
C6_SilentServerThreeSends ==
  (stunServer # << >> /\ stunEvents \subseteq {"timeout"}) =>
    /\ pc = "send" => sends + attempts_remaining = 3 /\ attempts_remaining >= 1
    /\ pc = "recv" => sends + attempts_remaining = 4 /\ attempts_remaining >= 1
    /\ pc \notin {"send", "recv"} => StunEnded /\ sends = 3 /\ Last(stunRets) = NoneV

C6_Witness ==
  StunEnded /\ stunEvents = {"timeout"} /\ sends = 3 /\ Last(stunRets) = NoneV

\* C7: every call of whatismyip(), whatismyipv4() and whatismyipv6()
\* returns in the end, whatever the network does.
C7_EveryCallReturns == (pc \notin {"idle", "done"}) ~> (pc = "done")

\* C8: _get_ip_from_stun returns an address only when the datagram it was
\* read from is a Binding Response (type 0x0101) whose transaction id is the
\* one of the request this call sent.
C8_AddressOnlyFromMatchingResponse ==
  (StunEnded /\ Last(stunRets).kind = "str") =>
    /\ Slice(buf, 0, 2) = <<1, 1>>
    /\ Len(buf) >= 20
    /\ Slice(buf, 4, 20) = Slice(BindRequest(transID), 4, 20)

C8_Witness ==
  /\ StunEnded /\ Last(stunRets).kind = "str"
  /\ sends = 2 /\ stunEvents = {"datagram"}

\* the attributes from offset off, n bytes of them declared to follow, hold
\* one of type mapped-address
RECURSIVE HasMappedAddress(_, _, _)
HasMappedAddress(b, off, n) ==
  IF n <= 0 \/ off + 4 > Len(b) THEN FALSE
  ELSE \/ <<b[off + 1], b[off + 2]>> = <<0, 1>>
       \/ HasMappedAddress(b, off + 4 + 256 * b[off + 3] + b[off + 4],
                           n - (4 + 256 * b[off + 3] + b[off + 4]))

\* the buffer is a Binding Response to the request of this call
AnswersRequest(b) ==
  /\ Len(b) >= 20
  /\ Slice(b, 0, 2) = <<1, 1>>
  /\ Slice(b, 4, 20) = Slice(BindRequest(transID), 4, 20)

DeclaredLength(b) == 256 * b[3] + b[4]

\* C9: a matching Binding Response with no mapped-address attribute within
\* its declared body length, a declared length of 0 included, decodes to
\* None: no address is returned and nothing is raised.
C9_NoMappedAddressIsNone ==
  (/\ StunEnded /\ AnswersRequest(buf)
   /\ Len(buf) >= 20 + DeclaredLength(buf)
   /\ ~HasMappedAddress(buf, 20, DeclaredLength(buf)))
  => Last(stunRets) = NoneV

\* C10: a response that is cut short (shorter than the 20-byte header, or
\* shorter than the header and the body it declares) is a decode failure,
\* None, and never an exception that leaves _get_ip_from_stun.
C10_TruncatedIsNone ==
  (/\ StunEnded /\ buf # << >> /\ "OSError" \notin stunEvents
   /\ \/ Len(buf) < 20
      \/ AnswersRequest(buf) /\ Len(buf) < 20 + DeclaredLength(buf))
  => Last(stunRets) = NoneV

\* the offset of the first mapped-address attribute at or after off when the
\* attributes from off, each with the value its length declares, lie wholly
\* in the buffer up to it; -1 otherwise
RECURSIVE MappedOffset(_, _)
MappedOffset(b, off) ==
  IF off + 4 > Len(b) THEN -1
  ELSE LET n == 256 * b[off + 3] + b[off + 4]
       IN  IF off + 4 + n > Len(b) THEN -1
           ELSE IF <<b[off + 1], b[off + 2]>> = <<0, 1>>
                  THEN (IF n = 8 THEN off ELSE -1)
                  ELSE MappedOffset(b, off + 4 + n)

\* the dotted-decimal text of four octets
Dotted(o) == Str(o[1]) \o <<".">> \o Str(o[2]) \o <<".">> \o Str(o[3]) \o <<".">> \o Str(o[4])

\* C11: decoding a well-formed Binding Response that carries the transaction
\* id of the request and a mapped-address attribute with the octets a, b, c,
\* d, first in the body or after attributes of other types of any declared
\* length, returns the text "a.b.c.d".
C11_CodecRoundTrip ==
  (/\ StunEnded /\ AnswersRequest(buf)
   /\ Len(buf) = 20 + DeclaredLength(buf)
   /\ MappedOffset(buf, 20) >= 20)
  => LET m == MappedOffset(buf, 20)
     IN  Last(stunRets) = StrV(Dotted(Slice(buf, m + 8, m + 12)))

C11_Witness ==
  /\ StunEnded /\ AnswersRequest(buf)
  /\ Len(buf) = 20 + DeclaredLength(buf)
  /\ MappedOffset(buf, 20) = 27
  /\ Last(stunRets) = StrV(<<"2", "5", "5", ".", "0", ".", "1", "0", ".", "1">>)

\* the texts that one of the patterns matches from the first character to
\* the last
WholeIPv4Texts == {t \in UserIps : Len(t) \in IPV4_REGEX_ends(t)}
WholeIPv6Texts == {t \in UserIps : Len(t) \in IPV6_REGEX_ends(t)}

\* the HTTPS resolver has returned the stripped body of the k-th response
ReturnedBody(k) ==
  /\ pc = "done" /\ k = Len(httpsLog) /\ idx = k
  /\ httpsLog[k].response.kind = "body"
  /\ result = StrV(Strip(httpsLog[k].response.text))

\* C12: the validation of an HTTPS body is a match of the whole text: a body
\* that is an address followed by more text that is not whitespace (as
\* "99.99.99.99.x") is rejected, its endpoint is a failed source and
\* its text is not returned; the empty text is rejected.
C12_WholeStringMatch ==
  /\ \A v \in {"4", "6", "None"} : ~Accepts(v, << >>)
  /\ \A k \in 1..Len(httpsLog) :
        LET r == httpsLog[k].response
        IN  (r.kind = "body" /\ Strip(r.text) \notin WholeIPv4Texts \cup WholeIPv6Texts)
              => ~ReturnedBody(k)

\* _get_ip_from_https has returned to the operation
HttpsEnded == pc = "done" /\ ipWebsites # << >>

\* C13: _get_ip_from_https returns a stripped body only if it is valid for
\* the wanted family (an IPv4 address for ip_version 4, an IPv6 address for
\* 6, either for None); a body that is a page of HTML or an address of the
\* other family makes its endpoint a failed source; the body "99.99.99.99"
\* is returned as "99.99.99.99" where IPv4 is admitted; when every endpoint
\* serves HTML the result is None; nothing is raised.
C13_OnlyValidForFamily ==
  HttpsEnded =>
    /\ result.kind \in {"str", "None"}
    /\ result.kind = "str" =>
          /\ ReturnedBody(Len(httpsLog))
          /\ \/ ip_version \in {"4", "None"} /\ result.text \in WholeIPv4Texts
             \/ ip_version \in {"6", "None"} /\ result.text \in WholeIPv6Texts
    /\ (/\ ip_version \in {"4", "None"} /\ httpsLog # << >>
        /\ Last(httpsLog).response.kind = "body"
        /\ Strip(Last(httpsLog).response.text)
             = <<"9", "9", ".", "9", "9", ".", "9", "9", ".", "9", "9">>)
       => result = StrV(<<"9", "9", ".", "9", "9", ".", "9", "9", ".", "9", "9">>)
    /\ (\A k \in 1..Len(httpsLog) :
          httpsLog[k].response.text = <<"<", "h", "t", "m", "l", ">">>)
       => result = NoneV

\* the k-th response of the log passed the validation of the wanted family
ValidAt(k) ==
  LET r == httpsLog[k].response
  IN  /\ r.kind = "body"
      /\ \/ ip_version \in {"4", "None"} /\ Strip(r.text) \in IPv4Texts
         \/ ip_version \in {"6", "None"} /\ Strip(r.text) \in IPv6Texts

\* C14: the HTTPS resolver visits the endpoints one after the other in the
\* order of one permutation of the pool, requests each at most once and none
\* after an endpoint has given a body that validates; the address returned is
\* the stripped body of the first endpoint in that order that validates, and
\* None is returned only after every endpoint has been tried and has failed.
C14_FirstSuccessWins ==
  ipWebsites # << >> =>
    /\ Len(ipWebsites) = Len(IP_WEBSITES) /\ Range(ipWebsites) = Range(IP_WEBSITES)
    /\ Len(httpsLog) = IF pc = "urlopen" THEN idx - 1 ELSE idx
    /\ \A k \in 1..Len(httpsLog) : httpsLog[k].site = ipWebsites[k]
    /\ \A k \in 1..Len(httpsLog) : ValidAt(k) => (k = Len(httpsLog) /\ pc = "done")
    /\ pc = "done" =>
          \/ /\ result.kind = "str"
             /\ ValidAt(Len(httpsLog))
             /\ result.text = Strip(Last(httpsLog).response.text)
          \/ /\ result = NoneV
             /\ Len(httpsLog) = Len(ipWebsites)
             /\ \A k \in 1..Len(httpsLog) : ~ValidAt(k)

C14_Witness ==
  /\ pc = "done" /\ ipWebsites # << >>
  /\ Len(httpsLog) = 2 /\ result.kind = "str"
  /\ httpsLog[1].response.kind = "body"

\* C15: the public operations take an optional list of endpoints that
\* overrides the default pool: whatismyip(sources=(u,)), u an endpoint that
\* answers "99.99.99.99", returns "99.99.99.99".
C15_SourcesOverride ==
  (pc = "done" /\ op = "whatismyip" /\ sources # << >>)
  => result = StrV(<<"9", "9", ".", "9", "9", ".", "9", "9", ".", "9", "9">>)

\* the _get_ip_from_stun of the operation is between its bind and its return
InFlight == pc \in {"send", "recv", "check", "walk"} /\ sockObj = "open"

\* C16: two STUN queries of one process never hold sockets bound to the
\* same local UDP port at the same time, and so a Binding Response that
\* answers one query in flight is never received by the other.
C16_NoSharedPort ==
  /\ ~(InFlight /\ peerSock = "open")
  /\ ~(InFlight /\ sends > 0 /\ peerSock = "open" /\ peerTransID # transID
        /\ peerGot = Upper(transID))
  /\ ~(InFlight /\ pc = "check" /\ peerSock = "open" /\ peerTransID # transID
        /\ Upper(b2hex(Slice(buf, 4, 20))) = Upper(peerTransID))

\* C17: every failure of the socket inside the STUN transport (bind() fails,
\* sendto() fails, recvfrom() times out or fails) is absorbed: no call of
\* _get_ip_from_stun lets the error out, and none reaches whatismyip() or
\* whatismyipv4().
C17_SocketFailuresAbsorbed ==
  /\ \A k \in 1..Len(stunRets) : stunRets[k].exc # "OSError"
  /\ op \in {"whatismyip", "whatismyipv4"} => result.exc # "OSError"

\* C18: when the host name of the STUN server cannot be resolved (sendto
\* raises socket.gaierror) _get_ip_from_stun returns None at once: it sends
\* nothing more and receives nothing, however many attempts remain.
C18_UnresolvedHostReturnsNone ==
  "gaierror" \in stunEvents =>
    /\ pc \notin {"send", "recv", "check", "walk"}
    /\ stunRets # << >> /\ Last(stunRets) = NoneV
    /\ attempts_remaining > 0

C18_Witness ==
  /\ "gaierror" \in stunEvents /\ StunEnded
  /\ attempts_remaining = 2 /\ sends = 1 /\ Last(stunRets) = NoneV

\* C19: amionline(web_servers=S) returns a boolean and raises nothing for
\* every sequence S that is not empty, a list or a tuple (as
\* ONLINE_WEB_SERVERS), of three or more entries or of fewer: True as soon
\* as one of at most three entries taken in random order resolves, False
\* when every entry tried fails.
C19_AmIOnlineNeverRaises ==
  (op = "amionline" /\ pc = "done") =>
    /\ result.kind \in {"True", "False"}
    /\ result.kind = "True" => tried < OnlineTries
    /\ result.kind = "False" => tried = Min(OnlineTries, Len(online_web_servers.items))

\* C20: the walk over the attributes stays within the body the header
\* declares: every byte it reads lies in [20, 20 + declared length), the
\* count of bytes that remain is never negative and the walk stops when it
\* reaches 0, also when an attribute declares more bytes than remain or the
\* value of the last attribute is shorter than 8 bytes.
C20_WalkWithinDeclaredBody ==
  pc = "walk" =>
    /\ message_remaining >= 0
    /\ message_remaining # 0 => base + 12 <= 20 + DeclaredLength(buf)

\* C21: the socket a call of _get_ip_from_stun opened is closed when the
\* call returns, on every return path (a mapped address found, the attempts
\* used up, the host name not resolved, the attributes walked to their end);
\* no socket of a finished call stays open and bound to the fixed port.
C21_SocketClosedOnReturn ==
  (StunEnded /\ Last(stunRets).kind # "raised") => sockObj \in {"closed", "finalized"}

\* C22: no operation changes a sequence of endpoints it is given or a pool
\* of the module: after a call the sequence the caller passed has the
\* elements it had, in the order it had them, and what is shuffled is a copy.
\* (The pools of the module are tuples, which nothing can change.)
C22_SequencesNotMutated == callerSeq = passed

====
